---- MODULE Spec2Model ----
(***************************************************************************)
(* Model of the audynomial packing / scheduling / playback engine          *)
(* (src/src/lib.rs, src/src/func.rs).                                      *)
(*                                                                         *)
(* Numbers.  Start, end and time values are i64 sample offsets and are     *)
(* integers here.  f32 values are modelled on the grid of quarters: an     *)
(* amplitude coefficient or a phase q stands for the f32 value q/4, a      *)
(* frequency coefficient is a whole number, and a sample value v stands    *)
(* for v/4.  Products and sums are rounded to the 24 significant bits of   *)
(* f32, one operation at a time, in the order of the code.  The f32 sine   *)
(* of TAU * k/4 is exactly 0 for k = 0 and exactly 1 or -1 for the odd k   *)
(* that sin_quarters lists; for every other k it carries the rounding      *)
(* error of the f32 argument and is left open (AnyF32).                    *)
(*                                                                         *)
(* Option values: None is [some |-> FALSE], Some(x) is                     *)
(* [some |-> TRUE, val |-> x].                                             *)
(***************************************************************************)
EXTENDS Integers, Sequences, FiniteSets, TLC

\* ------------------------------------------------------------------ bounds
\* Largest initial time / deposit time the enumerated drivers pass in.
MaxTime == 3
\* Largest output buffer the enumerated play calls pass in.
MaxBuf == 2
\* Largest number of waves appended to a packer by the enumerated authoring.
MaxWaves == 2

\* ------------------------------------------------------------- primitives
None == [some |-> FALSE]
Some(x) == [some |-> TRUE, val |-> x]

Min2(a, b) == IF a <= b THEN a ELSE b

RECURSIVE SumSeq(_)
SumSeq(s) == IF s = <<>> THEN 0 ELSE Head(s) + SumSeq(Tail(s))

RECURSIVE Flatten(_)
Flatten(ss) == IF ss = <<>> THEN <<>> ELSE Head(ss) \o Flatten(Tail(ss))

\* Iterator::min over the ends of a live set, None on an empty one.
RECURSIVE MinEnd(_)
MinEnd(ws) ==
  IF ws = <<>> THEN None
  ELSE LET rest == MinEnd(Tail(ws))
       IN  IF rest.some THEN Some(Min2(Head(ws).end, rest.val))
           ELSE Some(Head(ws).end)

\* `n as u8`: the count modulo 256.
as_u8(n) == n % 256

\* The cut without the .min(valid_for as usize).
cut_len_whole(len, valid_for) == len

\* buffer.len().min(valid_for as usize): the cast wraps, so a negative
\* valid_for becomes a value of at least 2^63 (2^31 on 32-bit targets), which
\* exceeds the length of any slice.
cut_len(len, valid_for) == IF valid_for < 0 THEN len ELSE Min2(len, valid_for)

\* ------------------------------------------------- func.rs: evaluation
Abs(n) == IF n < 0 THEN 0 - n ELSE n

\* f32 keeps 24 significant bits: every whole number (or whole number of
\* quarters) below 2^24 in magnitude is an f32, larger ones are rounded.
F32Mantissa == 16777216

\* Magnitudes from F32Range on are not computed by the model.
F32Range == 64 * F32Mantissa

\* Stands for an f32 result the model leaves open: the code computes some
\* f32 there (any value, NaN and the infinities included; it may even be a
\* whole number of quarters), and the model says nothing about which.  It
\* arises from a sine whose argument carries rounding error that the table
\* below does not cover, from a magnitude of F32Range or more, and from any
\* operation on such a result.  No determined value equals it.
AnyF32 == 1 - F32Range - F32Range
determined(v) == v # AnyF32

\* The spacing of the f32 values around the magnitude m >= 1: the smallest
\* power of two p, from p on, with m / p below 2^24.
RECURSIVE ulp_of(_, _)
ulp_of(m, p) == IF m \div p < F32Mantissa THEN p ELSE ulp_of(m, 2 * p)

\* The magnitude m rounded to a multiple of p, to nearest, ties to even.
round_to(m, p) ==
  LET q == m \div p
      r == m % p
  IN  IF 2 * r > p \/ (2 * r = p /\ q % 2 = 1) THEN (q + 1) * p ELSE q * p

\* The f32 nearest to n (round to nearest, ties to even), |n| < 2 * F32Range.
round_f32(n) ==
  IF n < 0 THEN 0 - round_to(0 - n, ulp_of(0 - n, 1))
  ELSE round_to(n, ulp_of(n, 1))

\* A determined result, or AnyF32 from F32Range on.
ranged(v) == IF Abs(v) < F32Range THEN v ELSE AnyF32

\* `n as f32` for an i64 n.
as_f32(n) == IF Abs(n) < F32Range THEN ranged(round_f32(n)) ELSE AnyF32

\* The f32 product a * b (one factor a whole number).
mul_f32(a, b) ==
  IF ~determined(a) \/ ~determined(b) THEN AnyF32
  ELSE IF a = 0 \/ b = 0 THEN 0
  ELSE IF Abs(a) > (F32Range - 1) \div Abs(b) THEN AnyF32
  ELSE ranged(round_f32(a * b))

\* The f32 sum a + b (both in the same unit).
add_f32(a, b) ==
  IF ~determined(a) \/ ~determined(b) THEN AnyF32
  ELSE ranged(round_f32(a + b))

\* sum::<f32>() of terms: the additions of f32, from 0.0, in term order.
RECURSIVE sum_from(_, _)
sum_from(acc, terms) ==
  IF terms = <<>> THEN acc
  ELSE sum_from(add_f32(acc, Head(terms)), Tail(terms))

sum_f32(terms) == sum_from(0, terms)

\* ts(t): the first n terms of the lazy power sequence: 1.0, then each term
\* is the f32 product of the one before with t.
RECURSIVE ts(_, _)
ts(t, n) == IF n = 0 THEN <<>>
            ELSE IF n = 1 THEN <<1>>
            ELSE LET p == ts(t, n - 1) IN Append(p, mul_f32(p[n - 1], t))

\* <[f32] as Function>::eval: the only coefficient, or the f32 sum of the
\* f32 products coefficient * power, in coefficient order.
slice_eval(c, t) ==
  IF Len(c) = 1 THEN c[1]
  ELSE LET pw == ts(t, Len(c))
       IN  sum_f32([i \in 1..Len(c) |-> mul_f32(c[i], pw[i])])

\* The largest product u * f the table SinMissed covers.
SinTableMax == 2809

\* The pairs <<u, f>>, u = 4 * (t + phase) and f = freq(t), with an odd
\* product of at most SinTableMax, for which (TAU * (t + phase) * freq(t)).sin()
\* misses 1 or -1 in f32 (the first: t + phase = 2.75, freq(t) = 125 gives
\* -0.99999994).  For every other pair with such a product the f32 sine is
\* exactly 1 or -1.
SinMissed ==
  { <<11, 125>>, <<51, 27>>, <<197, 7>>, <<11, 135>>, <<531, 3>>,
    <<11, 145>>, <<7, 235>>, <<35, 47>>, <<183, 9>>, <<11, 151>>,
    <<7, 243>>, <<21, 81>>, <<63, 27>>, <<189, 9>>, <<11, 155>>, <<27, 65>>,
    <<351, 5>>, <<7, 251>>, <<11, 161>>, <<27, 67>>, <<7, 259>>, <<49, 37>>,
    <<259, 7>>, <<11, 165>>, <<363, 5>>, <<365, 5>>, <<7, 267>>, <<21, 89>>,
    <<11, 171>>, <<101, 19>>, <<17, 113>>, <<641, 3>>, <<7, 275>>,
    <<11, 175>>, <<35, 55>>, <<175, 11>>, <<643, 3>>, <<5, 395>>,
    <<7, 283>>, <<51, 39>>, <<11, 181>>, <<95, 21>>, <<677, 3>>,
    <<11, 185>>, <<407, 5>>, <<7, 291>>, <<21, 97>>, <<5, 417>>,
    <<17, 123>>, <<51, 41>>, <<7, 299>>, <<91, 23>>, <<11, 191>>,
    <<11, 195>>, <<143, 15>>, <<195, 11>>, <<7, 307>>, <<307, 7>>,
    <<11, 197>>, <<197, 11>>, <<17, 129>>, <<51, 43>>, <<129, 17>>,
    <<731, 3>>, <<5, 439>>, <<169, 13>>, <<733, 3>>, <<7, 315>>,
    <<21, 105>>, <<35, 63>>, <<49, 45>>, <<63, 35>>, <<105, 21>>,
    <<147, 15>>, <<245, 9>>, <<11, 201>>, <<751, 3>>, <<11, 205>>,
    <<61, 37>>, <<251, 9>>, <<753, 3>>, <<7, 323>>, <<119, 19>>,
    <<133, 17>>, <<755, 3>>, <<757, 3>>, <<11, 207>>, <<759, 3>>,
    <<761, 3>>, <<7, 329>>, <<47, 49>>, <<49, 47>>, <<5, 461>>, <<461, 5>>,
    <<463, 5>>, <<7, 331>>, <<11, 211>>, <<211, 11>>, <<7, 337>>,
    <<337, 7>>, <<787, 3>>, <<17, 139>>, <<139, 17>>, <<5, 473>>,
    <<11, 215>>, <<473, 5>>, <<7, 339>>, <<21, 113>>, <<339, 7>>,
    <<95, 25>>, <<475, 5>>, <<183, 13>>, <<477, 5>>, <<11, 217>>,
    <<5, 483>>, <<7, 345>>, <<21, 115>>, <<35, 69>>, <<105, 23>>,
    <<115, 21>>, <<7, 347>>, <<11, 221>>, <<7, 353>>, <<5, 495>>,
    <<11, 225>>, <<75, 33>>, <<7, 355>>, <<35, 71>>, <<11, 227>>,
    <<51, 49>>, <<87, 29>>, <<841, 3>>, <<5, 505>>, <<101, 25>>, <<505, 5>>,
    <<7, 361>>, <<133, 19>>, <<843, 3>>, <<17, 149>>, <<169, 15>>,
    <<7, 363>>, <<11, 231>>, <<21, 121>>, <<231, 11>>, <<859, 3>>,
    <<7, 369>>, <<21, 123>>, <<63, 41>>, <<287, 9>>, <<861, 3>>, <<5, 517>>,
    <<11, 235>>, <<47, 55>>, <<517, 5>>, <<863, 3>>, <<865, 3>>, <<7, 371>>,
    <<49, 53>>, <<51, 51>>, <<867, 3>>, <<11, 237>>, <<869, 3>>, <<7, 373>>,
    <<871, 3>>, <<5, 523>>, <<27, 97>>, <<7, 375>>, <<21, 125>>, <<35, 75>>,
    <<105, 25>>, <<175, 15>>, <<11, 239>>, <<381, 7>>, <<383, 7>>,
    <<1, 2687>>, <<2687, 1>>, <<1, 2689>>, <<2689, 1>>, <<1, 2691>>,
    <<13, 207>>, <<39, 69>>, <<69, 39>>, <<117, 23>>, <<207, 13>>,
    <<299, 9>>, <<897, 3>>, <<2691, 1>>, <<1, 2693>>, <<2693, 1>>,
    <<1, 2695>>, <<5, 539>>, <<7, 385>>, <<11, 245>>, <<35, 77>>,
    <<49, 55>>, <<245, 11>>, <<539, 5>>, <<2695, 1>>, <<1, 2697>>,
    <<31, 87>>, <<87, 31>>, <<93, 29>>, <<899, 3>>, <<2697, 1>>,
    <<1, 2699>>, <<2699, 1>>, <<1, 2701>>, <<73, 37>>, <<2701, 1>>,
    <<1, 2703>>, <<17, 159>>, <<51, 53>>, <<159, 17>>, <<2703, 1>>,
    <<1, 2705>>, <<5, 541>>, <<541, 5>>, <<2705, 1>>, <<1, 2707>>,
    <<2707, 1>>, <<1, 2709>>, <<7, 387>>, <<21, 129>>, <<63, 43>>,
    <<129, 21>>, <<2709, 1>>, <<1, 2711>>, <<2711, 1>>, <<5, 543>>,
    <<181, 15>>, <<543, 5>>, <<11, 247>>, <<13, 209>>, <<143, 19>>,
    <<209, 13>>, <<7, 389>>, <<5, 545>>, <<545, 5>>, <<27, 101>>,
    <<101, 27>>, <<7, 391>>, <<119, 23>>, <<11, 249>>, <<211, 13>>,
    <<183, 15>>, <<95, 29>>, <<23, 121>>, <<65, 43>>, <<1, 2797>>,
    <<2797, 1>>, <<1, 2799>>, <<311, 9>>, <<933, 3>>, <<2799, 1>>,
    <<1, 2801>>, <<2801, 1>>, <<1, 2803>>, <<2803, 1>>, <<1, 2805>>,
    <<5, 561>>, <<11, 255>>, <<17, 165>>, <<33, 85>>, <<51, 55>>,
    <<55, 51>>, <<165, 17>>, <<187, 15>>, <<255, 11>>, <<935, 3>>,
    <<2805, 1>>, <<1, 2807>>, <<7, 401>>, <<401, 7>>, <<2807, 1>>,
    <<1, 2809>>, <<2809, 1>> }

\* (TAU * (t + phase) * freq(t)).sin() in f32, for t + phase = u/4 and
\* freq(t) = f, so that the exact argument is TAU * k/4 with k = u * f.  TAU
\* as f32 exceeds 2 pi by 1.7e-7 and both products are rounded, so the f32
\* argument is an exact multiple of pi/2 only when it is 0: for even k # 0
\* the result is a small non-zero number (k = 2: -8.742278e-8); for odd k it
\* is exactly 1 or -1 while the argument is within 2^-12 of the exact one,
\* which SinMissed records up to SinTableMax; beyond it, and for even k # 0,
\* the result is left open.
sin_quarters(u, f) ==
  IF ~determined(u) \/ ~determined(f) THEN AnyF32
  ELSE IF u = 0 \/ f = 0 THEN 0
  ELSE IF Abs(u) > SinTableMax \/ Abs(f) > SinTableMax THEN AnyF32
  ELSE IF (u * f) % 2 = 0 THEN AnyF32
  ELSE IF Abs(u * f) > SinTableMax \/ <<Abs(u), Abs(f)>> \in SinMissed THEN AnyF32
  ELSE IF (u * f) % 4 = 1 THEN 1 ELSE 0 - 1

\* amp * sine in f32: exact for a sine of 0, 1 or -1.
scale(amp, sine) == IF determined(sine) THEN amp * sine ELSE AnyF32

\* t as a number of quarters (exact: a multiplication by 4).
quarters(t) ==
  IF ~determined(t) \/ Abs(t) >= F32Range \div 4 THEN AnyF32 ELSE 4 * t

\* amp * sin(TAU * (t + phase) * freq) for amp in quarters, u = 4 * (t + phase)
\* and f = freq: zero times the sine of a finite argument is zero.
wave_value(amp, u, f) ==
  IF ~determined(amp) \/ ~determined(u) \/ ~determined(f) THEN AnyF32
  ELSE IF amp = 0 THEN 0
  ELSE scale(amp, sin_quarters(u, f))

\* <Wave as Function>::eval: amp(t) * sin(TAU * (t + phase) * freq(t));
\* t + phase is the f32 sum, (4t + phase_q) / 4 rounded.
Wave_eval(w, t) ==
  wave_value(slice_eval(w.amp, t), add_f32(quarters(t), w.phase),
             slice_eval(w.freq, t))

\* TimedWave::eval: the wave at (time - start) as f32.
TimedWave_eval(tw, time) == Wave_eval(tw.wave, as_f32(time - tw.start))

\* current.iter().map(|tw| tw.eval(time)).sum::<f32>()
mix(current, time) ==
  sum_f32([i \in 1..Len(current) |-> TimedWave_eval(current[i], time)])

\* Wave::default()
Wave_default == [freq |-> <<>>, amp |-> <<>>, phase |-> 0]

\* ------------------------------------------------- func.rs: MultiPoly
\* MultiPoly::new
MultiPoly_new(coeffs, run_lengths) ==
  IF Len(coeffs) = SumSeq(run_lengths)
  THEN Some([coeffs |-> coeffs, run_lengths |-> run_lengths])
  ELSE None

\* next without `self.coeffs = next`: the remaining view is not shrunk.
MultiPoly_next_coeffs_kept(mp) ==
  IF mp.run_lengths = <<>> THEN [some |-> FALSE, mp |-> mp]
  ELSE LET len == Head(mp.run_lengths)
       IN  [some |-> TRUE,
            val  |-> SubSeq(mp.coeffs, 1, len),
            mp   |-> [coeffs |-> mp.coeffs, run_lengths |-> Tail(mp.run_lengths)]]

\* <MultiPoly as Iterator>::next: None, or the item and the advanced decoder.
\* split_at is within range for every decoder built by MultiPoly::new.
MultiPoly_next(mp) ==
  IF mp.run_lengths = <<>> THEN [some |-> FALSE, mp |-> mp]
  ELSE LET len == Head(mp.run_lengths)
       IN  [some |-> TRUE,
            val  |-> SubSeq(mp.coeffs, 1, len),
            mp   |-> [coeffs |-> SubSeq(mp.coeffs, len + 1, Len(mp.coeffs)),
                      run_lengths |-> Tail(mp.run_lengths)]]

\* ------------------------------------------------- lib.rs: TimedWavePacker
TimedWavePacker_new ==
  [timings |-> <<>>, freq_coef |-> <<>>, freq_runs |-> <<>>,
   amp_coef |-> <<>>, amp_runs |-> <<>>, phases |-> <<>>]

\* One iteration of the loop of extend.
extend_one(p, tw) ==
  LET freq  == tw.wave.freq
      amp   == tw.wave.amp
      f_len == as_u8(Len(freq))
      a_len == as_u8(Len(freq))
  IN  [timings   |-> Append(p.timings, <<tw.start, tw.end>>),
       freq_coef |-> p.freq_coef \o freq,
       amp_coef  |-> p.amp_coef \o amp,
       freq_runs |-> Append(p.freq_runs, f_len),
       amp_runs  |-> Append(p.amp_runs, a_len),
       phases    |-> Append(p.phases, tw.wave.phase)]

\* <TimedWavePacker as Extend<TimedWave<T>>>::extend
RECURSIVE extend(_, _)
extend(p, iter) ==
  IF iter = <<>> THEN p ELSE extend(extend_one(p, Head(iter)), Tail(iter))

\* <TimedWavePacker as FromIterator>::from_iter (collect)
from_iter(iter) == extend(TimedWavePacker_new, iter)

\* The run lengths pushed by one of the two loops of bulk_generate.
group_runs(groups) == [i \in 1..Len(groups) |-> as_u8(Len(groups[i]))]

\* TimedWavePacker::bulk_generate
bulk_generate(p, timings, frequencies, amplitudes, phases) ==
  [timings   |-> p.timings \o timings,
   freq_coef |-> p.freq_coef \o Flatten(frequencies),
   freq_runs |-> p.freq_runs \o group_runs(frequencies),
   amp_coef  |-> p.amp_coef \o Flatten(amplitudes),
   amp_runs  |-> p.amp_runs \o group_runs(amplitudes),
   phases    |-> p.phases \o phases]

\* ------------------------------------------------- lib.rs: PackedTimedWaves
\* timings.windows(2).all(|s| s[0].0 <= s[1].0)
windows_sorted(timings) ==
  \A i \in 1..(Len(timings) - 1) : timings[i][1] <= timings[i + 1][1]

\* PackedTimedWaves::new without the comparison of phases.len() with
\* timings.len().
PackedTimedWaves_new_no_phases(timings, frequency_coef, frequency_runs, amplitude_coef, amplitude_runs, phases) ==
  LET f == MultiPoly_new(frequency_coef, frequency_runs)
      a == MultiPoly_new(amplitude_coef, amplitude_runs)
  IN  IF ~f.some \/ ~a.some THEN None
      ELSE IF /\ Len(timings) = Len(frequency_runs)
              /\ Len(frequency_runs) = Len(amplitude_runs)
              /\ windows_sorted(timings)
           THEN Some([timings |-> timings, frequencies |-> f.val,
                      amplitudes |-> a.val, phases |-> phases])
           ELSE None

\* PackedTimedWaves::new.  The argument of then_some is evaluated first, and
\* each `?` in it returns None from the function.
PackedTimedWaves_new(timings, frequency_coef, frequency_runs, amplitude_coef, amplitude_runs, phases) ==
  LET f == MultiPoly_new(frequency_coef, frequency_runs)
      a == MultiPoly_new(amplitude_coef, amplitude_runs)
  IN  IF ~f.some THEN None
      ELSE IF ~a.some THEN None
      ELSE IF /\ Len(timings) = Len(frequency_runs)
              /\ Len(frequency_runs) = Len(amplitude_runs)
              /\ Len(phases) = Len(timings)
              /\ windows_sorted(timings)
           THEN Some([timings |-> timings, frequencies |-> f.val,
                      amplitudes |-> a.val, phases |-> phases])
           ELSE None

\* TimedWavePacker::get_pack
get_pack(p) ==
  PackedTimedWaves_new(p.timings, p.freq_coef, p.freq_runs,
                       p.amp_coef, p.amp_runs, p.phases)

\* <PackedTimedWaves as Default>::default
PackedTimedWaves_default ==
  PackedTimedWaves_new(<<>>, <<>>, <<>>, <<>>, <<>>, <<>>).val

\* The last step of Zip::next in WaveSlice::next: the amplitude group a taken
\* from view w, after phase and frequency group freq were taken.
zip_amplitude(phase, freq, a, w) ==
  IF ~a.some THEN [some |-> FALSE, waves |-> [w EXCEPT !.amplitudes = a.mp]]
  ELSE [some |-> TRUE, val |-> [freq |-> freq, amp |-> a.val, phase |-> phase],
        waves |-> [w EXCEPT !.amplitudes = a.mp]]

\* The middle step of Zip::next: the frequency group f taken from view w.
zip_frequency(phase, f, w) ==
  IF ~f.some THEN [some |-> FALSE, waves |-> [w EXCEPT !.frequencies = f.mp]]
  ELSE zip_amplitude(phase, f.val, MultiPoly_next(w.amplitudes),
                     [w EXCEPT !.frequencies = f.mp])

\* The zip with the phase read but left in place.
zip_next_phase_kept(w) ==
  IF w.phases = <<>> THEN [some |-> FALSE, waves |-> w]
  ELSE zip_frequency(Head(w.phases), MultiPoly_next(w.frequencies), w)

\* (&mut phases).zip(&mut frequencies).zip(&mut amplitudes).next().map(..):
\* a phase, a frequency group and an amplitude group are taken in that order,
\* stopping at the first source that is empty.
zip_next(w) ==
  IF w.phases = <<>> THEN [some |-> FALSE, waves |-> w]
  ELSE zip_frequency(Head(w.phases), MultiPoly_next(w.frequencies),
                     [w EXCEPT !.phases = Tail(@)])

\* Some(TimedWave { start, end, wave }), or None by the `?` on the wave.
timed(timing, r) ==
  IF ~r.some THEN r
  ELSE [some |-> TRUE, waves |-> r.waves,
        val |-> [start |-> timing[1], end |-> timing[2], wave |-> r.val]]

\* next_if with start < stop in place of start <= stop.
WaveSlice_next_strict(waves, stop) ==
  IF waves.timings = <<>> \/ ~(Head(waves.timings)[1] < stop)
  THEN [some |-> FALSE, waves |-> waves]
  ELSE timed(Head(waves.timings), zip_next([waves EXCEPT !.timings = Tail(@)]))

\* <WaveSlice as Iterator>::next: None, or the item, with the view as the call
\* leaves it.  The timing is taken first (next_if), then the wave.
WaveSlice_next(waves, stop) ==
  IF waves.timings = <<>> \/ ~(Head(waves.timings)[1] <= stop)
  THEN [some |-> FALSE, waves |-> waves]
  ELSE timed(Head(waves.timings), zip_next([waves EXCEPT !.timings = Tail(@)]))

\* PackedTimedWaves::sample, drained as current_store.extend drains it: the
\* items yielded up to the first None, and the view afterwards.
RECURSIVE sample(_, _)
RECURSIVE drain(_, _)
push_front(x, r) == [items |-> <<x>> \o r.items, waves |-> r.waves]
drain(n, last_time) ==
  IF ~n.some THEN [items |-> <<>>, waves |-> n.waves]
  ELSE push_front(n.val, sample(n.waves, last_time))
sample(waves, last_time) == drain(WaveSlice_next(waves, last_time), last_time)

\* PackedTimedWaves::unravel
unravel(self, current_store) ==
  LET packer == extend(TimedWavePacker_new, current_store)
  IN  [timings   |-> packer.timings \o self.timings,
       freq_coef |-> packer.freq_coef \o self.frequencies.coeffs,
       freq_runs |-> packer.freq_runs \o self.frequencies.run_lengths,
       amp_coef  |-> packer.amp_coef \o self.amplitudes.coeffs,
       amp_runs  |-> packer.amp_runs \o self.amplitudes.run_lengths,
       phases    |-> packer.phases \o self.phases]

\* The live set with no wave retired.
retain_nothing_retired(current_store, time) == current_store

\* current_store.retain(|tw| tw.end > time)
retain(current_store, time) ==
  LET alive(tw) == tw.end > time IN SelectSeq(current_store, alive)

\* .min().unwrap_or(wakeup_time) and .peek().map(..).unwrap_or(wakeup_time)
unwrap_or(o, d) == IF o.some THEN o.val ELSE d
peek_start(timings) == IF timings = <<>> THEN None ELSE Some(Head(timings)[1])

\* The wakeup without the final .min(wakeup_time).
real_wakeup_uncapped(current, waves, wakeup_time) ==
  LET kill_wakeup_time  == unwrap_or(MinEnd(current), wakeup_time)
      birth_wakeup_time == unwrap_or(peek_start(waves.timings), wakeup_time)
  IN  Min2(kill_wakeup_time, birth_wakeup_time)

\* The tail of deposit_current (lib.rs 236-244): the wakeup for the live set
\* current and the view waves left by sample.
real_wakeup(current, waves, wakeup_time) ==
  LET kill_wakeup_time  == unwrap_or(MinEnd(current), wakeup_time)
      birth_wakeup_time == unwrap_or(peek_start(waves.timings), wakeup_time)
  IN  Min2(Min2(kill_wakeup_time, birth_wakeup_time), wakeup_time)

\* current_store.extend(self.sample(time)) and the Ok outcome.
deposit_ok(current, waves, wakeup_time) ==
  [ok |-> TRUE, current |-> current, waves |-> waves,
   next_pause |-> real_wakeup(current, waves, wakeup_time)]
deposit_births(kept, s, wakeup_time) == deposit_ok(kept \o s.items, s.waves, wakeup_time)

\* The Err outcome with the view left in place, not replaced by the default.
deposit_err_view_kept(self, kept) ==
  [ok |-> FALSE, packer |-> unravel(self, kept), waves |-> self]

\* replace(self, Self::default()) and Err(capture.unravel(current_store))
deposit_err(self, kept) ==
  [ok |-> FALSE, packer |-> unravel(self, kept), waves |-> PackedTimedWaves_default]

\* PackedTimedWaves::deposit_current.  ok: the Ok((current, next_pause)) or
\* Err(packer) outcome; waves: the view as the call leaves it.
deposit_current(self, current_store, time, wakeup_time) ==
  IF time >= wakeup_time
  THEN deposit_err(self, retain(current_store, time))
  ELSE deposit_births(retain(current_store, time), sample(self, time), wakeup_time)

\* ------------------------------------------------- lib.rs: Player
\* Player::new
Player_new(pack, time, wakeup) ==
  [pack |-> pack, time |-> time, wakeup |-> wakeup, current |-> <<>>]

\* The loop of Player::play.  output is the whole buffer, pos the number of
\* its elements already split off in front of `buffer`; current is the local
\* live set.  Result: ok, the player as the call leaves it, the buffer, the
\* position at which the returned remainder starts and the returned packer.
RECURSIVE play_loop(_, _, _, _)
RECURSIVE play_write(_, _, _, _, _)

\* The samples of `working`: positions pos+1 .. pos+cut, times start_time ...
write(output, pos, cut, current, start_time) ==
  [i \in 1..Len(output) |->
     IF pos < i /\ i <= pos + cut
     THEN mix(current, start_time + (i - pos - 1))
     ELSE output[i]]

\* lib.rs 39-50, with cut computed.
play_write(self, d, output, pos, cut) ==
  IF Len(output) - (pos + cut) = 0
  THEN [ok |-> TRUE,
        player |-> [self EXCEPT !.pack = d.waves, !.time = @ + cut,
                                !.current = d.current],
        output |-> write(output, pos, cut, d.current, self.time),
        pos |-> pos + cut, packer |-> TimedWavePacker_new]
  ELSE play_loop([self EXCEPT !.pack = d.waves, !.time = @ + cut], d.current,
                 write(output, pos, cut, d.current, self.time), pos + cut)

\* The match returning the whole output, not the remainder, on exhaustion.
play_match_whole(self, d, output, pos) ==
  IF ~d.ok
  THEN [ok |-> FALSE, player |-> [self EXCEPT !.pack = d.waves],
        output |-> output, pos |-> 0, packer |-> d.packer]
  ELSE play_write(self, d, output, pos,
                  cut_len(Len(output) - pos, d.next_pause - self.time))

\* The match on the outcome d of deposit_current (lib.rs 34-53).
play_match(self, d, output, pos) ==
  IF ~d.ok
  THEN [ok |-> FALSE, player |-> [self EXCEPT !.pack = d.waves],
        output |-> output, pos |-> pos, packer |-> d.packer]
  ELSE play_write(self, d, output, pos,
                  cut_len(Len(output) - pos, d.next_pause - self.time))

play_loop(self, current, output, pos) ==
  play_match(self, deposit_current(self.pack, current, self.time, self.wakeup),
             output, pos)

\* Player::play
play(self, output) ==
  play_loop([self EXCEPT !.current = <<>>], self.current, output, 0)

\* Player::current_time
current_time(self) == self.time

\* ------------------------------------------------- inputs of the drivers
TW(s, e, w) == [start |-> s, end |-> e, wave |-> w]

\* The wave of the test buffer_writing: freq [1.], amp [0.25], phase 0.25.
WaveA == [freq |-> <<1>>, amp |-> <<1>>, phase |-> 1]
\* A wave with more amplitude than frequency coefficients: amp(t) = (2 + t)/4.
WaveB == [freq |-> <<1>>, amp |-> <<2, 1>>, phase |-> 1]
\* A wave with more frequency than amplitude coefficients: freq(t) = 1 + 4t.
WaveC == [freq |-> <<1, 4>>, amp |-> <<4>>, phase |-> 1]

\* The timed waves the enumerated authoring appends: overlapping windows, an
\* empty window, a window that ends before it starts, equal starts.
Catalogue ==
  { TW(0, 2, WaveA), TW(1, 3, WaveB), TW(1, 1, WaveA), TW(2, 1, WaveC),
    TW(2, 4, WaveA) }

\* The schedules of the tests buffer_writing and depositing.
TestTimings == << <<0, 6>>, <<5, 8>>, <<7, 9>>, <<8, 12>> >>
BufferWritingWaves == [i \in 1..4 |-> TW(TestTimings[i][1], TestTimings[i][2], WaveA)]
DepositingWaves == [i \in 1..4 |-> TW(TestTimings[i][1], TestTimings[i][2], Wave_default)]

RECURSIVE SeqsUpTo(_, _)
SeqsUpTo(S, n) ==
  IF n <= 0 THEN {<<>>}
  ELSE LET shorter == SeqsUpTo(S, n - 1)
       IN  shorter \cup {Append(q, x) : q \in shorter, x \in S}

Max2(a, b) == IF a >= b THEN a ELSE b
Size(p) == Max2(Max2(Len(p.timings), Len(p.phases)),
                Max2(Len(p.freq_runs), Len(p.amp_runs)))

WaveLists(p) ==
  (SeqsUpTo(Catalogue, MaxWaves - Size(p)) \ {<<>>})
    \cup (IF p = TimedWavePacker_new THEN {BufferWritingWaves, DepositingWaves} ELSE {})

\* The four grouped sequences bulk_generate takes for a list of waves; drop
\* names the one sequence, if any, that is one item short.
Columns(ws, drop) ==
  LET n == Len(ws)
      len(c) == IF drop = c THEN n - 1 ELSE n
  IN  [timings     |-> [i \in 1..len("timings") |-> <<ws[i].start, ws[i].end>>],
       frequencies |-> [i \in 1..len("frequencies") |-> ws[i].wave.freq],
       amplitudes  |-> [i \in 1..len("amplitudes") |-> ws[i].wave.amp],
       phases      |-> [i \in 1..len("phases") |-> ws[i].wave.phase]]
Drops == {"none", "timings", "frequencies", "amplitudes", "phases"}

IsTest(p) == p.timings = TestTimings
\* (time, wakeup) of Player::new; the tests use (0, 11).
PlayerArgs(p) == IF IsTest(p) THEN {<<0, 11>>} ELSE (0..MaxTime) \X (0..(MaxTime + 1))
\* Buffer lengths of play; the test uses 7.
BufLens(p) == IF IsTest(p) THEN {7} ELSE 0..MaxBuf
\* max_wakeup_time and current_time of direct deposit_current calls; the test
\* depositing uses bound 8 and times 0, 5, 6, 7, 8.
DepositBounds(p) == IF IsTest(p) THEN {8} ELSE 0..(MaxTime + 1)
DepositTimes(p) == IF IsTest(p) THEN {0, 5, 6, 7, 8} ELSE 0..(MaxTime + 1)

\* Content of an output buffer before play: a value no mix produces.
Stale == 0 - 1000
blank(n) == [i \in 1..n |-> Stale]

\* The parallel-array invariants of the packed representation.
LengthsAgree(p) ==
  /\ Len(p.timings) = Len(p.freq_runs)
  /\ Len(p.timings) = Len(p.amp_runs)
  /\ Len(p.timings) = Len(p.phases)
RunsAgree(p) ==
  /\ SumSeq(p.freq_runs) = Len(p.freq_coef)
  /\ SumSeq(p.amp_runs) = Len(p.amp_coef)
SortedByStart(timings) ==
  \A i, j \in 1..Len(timings) : i < j => timings[i][1] <= timings[j][1]
WellFormed(p) == LengthsAgree(p) /\ RunsAgree(p) /\ SortedByStart(p.timings)

\* ------------------------------------------------------------------ state
VARIABLES
  packer,    \* the TimedWavePacker being authored, or handed back by play
  lastOp,    \* the last packer operation, with its arguments and result
  mode,      \* "author", "packed", "play", "deposit", "handback", "repacked",
             \* "loop" (inside the loop of a play call)
  pack,      \* the PackedTimedWaves view (Player.pack, or the test's `waves`)
  time,      \* Player.time, or the current_time of the last direct deposit
  wakeup,    \* Player.wakeup, or the max_wakeup_time of the direct deposits
  current,   \* Player.current, or the live set the last deposit returned; in
             \* mode "loop", the local `current` of play
  t0,        \* the time the current Player was constructed with
  outcome    \* the last play / deposit_current call: its entry state and result;
             \* in mode "loop", the play call in progress

vars == <<packer, lastOp, mode, pack, time, wakeup, current, t0, outcome>>

NoOp == [op |-> "new", before |-> TimedWavePacker_new, ws |-> <<>>,
         args |-> Columns(<<>>, "none"), result |-> None]
\* iters and zero belong to a play call taken one loop iteration at a time:
\* the number of deposit_current calls it has made, and whether the last
\* iteration wrote no sample.
NoOutcome == [call |-> "none", ok |-> TRUE, again |-> FALSE,
              pre |-> Player_new(PackedTimedWaves_default, 0, 0),
              output |-> <<>>, pos |-> 0, next_pause |-> 0,
              packer |-> TimedWavePacker_new, iters |-> 0, zero |-> FALSE]

Init ==
  /\ packer = TimedWavePacker_new
  /\ lastOp = NoOp
  /\ mode = "author"
  /\ pack = PackedTimedWaves_default
  /\ time = 0
  /\ wakeup = 0
  /\ current = <<>>
  /\ t0 = 0
  /\ outcome = NoOutcome

\* packer.extend(ws), and ws.collect() on the new packer
Extend(ws) ==
  /\ mode = "author"
  /\ packer' = extend(packer, ws)
  /\ lastOp' = [NoOp EXCEPT !.op = "extend", !.before = packer, !.ws = ws,
                            !.args = Columns(ws, "none")]
  /\ UNCHANGED <<mode, pack, time, wakeup, current, t0, outcome>>

\* packer.bulk_generate(timings, frequencies, amplitudes, phases)
BulkGenerate(ws, drop) ==
  /\ mode = "author"
  /\ LET a == Columns(ws, drop)
     IN  /\ packer' = bulk_generate(packer, a.timings, a.frequencies,
                                    a.amplitudes, a.phases)
         /\ lastOp' = [NoOp EXCEPT !.op = "bulk_generate", !.before = packer,
                                   !.ws = ws, !.args = a]
  /\ UNCHANGED <<mode, pack, time, wakeup, current, t0, outcome>>

\* The fields of TimedWavePacker are pub: the caller pushes, onto a packer
\* whose run lengths sum to the lengths of its coefficient arrays, one
\* coefficient that no run length accounts for.
PushCoef(field) ==
  /\ mode = "author"
  /\ RunsAgree(packer)
  /\ \/ /\ field = "freq_coef"
        /\ packer' = [packer EXCEPT !.freq_coef = Append(@, 1)]
     \/ /\ field = "amp_coef"
        /\ packer' = [packer EXCEPT !.amp_coef = Append(@, 1)]
  /\ lastOp' = [NoOp EXCEPT !.op = "push", !.before = packer]
  /\ UNCHANGED <<mode, pack, time, wakeup, current, t0, outcome>>

\* packer.get_pack()
GetPack ==
  /\ mode \in {"author", "handback"}
  /\ lastOp.op # "get_pack"
  /\ LET r == get_pack(packer)
     IN  /\ lastOp' = [NoOp EXCEPT !.op = "get_pack", !.before = packer, !.result = r]
         /\ pack' = IF r.some THEN r.val ELSE pack
         /\ mode' = IF ~r.some THEN mode
                    ELSE IF mode = "author" THEN "packed" ELSE "repacked"
  /\ UNCHANGED <<packer, time, wakeup, current, t0, outcome>>

\* Player::new(pack, t, w); after a hand-back, at the time of the exhaustion
\* and with a later wakeup bound.
NewPlayer(t, w) ==
  /\ \/ mode = "packed" /\ <<t, w>> \in PlayerArgs(packer)
     \/ mode = "repacked" /\ t = time /\ w > wakeup
  /\ mode' = "play"
  /\ time' = t
  /\ wakeup' = w
  /\ current' = <<>>
  /\ t0' = t
  /\ outcome' = NoOutcome
  /\ UNCHANGED <<packer, lastOp, pack>>

\* player.play(&mut buffer) on a buffer of n samples
Play(n) ==
  /\ mode = "play"
  /\ LET self == [pack |-> pack, time |-> time, wakeup |-> wakeup, current |-> current]
         r    == play(self, blank(n))
     IN  /\ pack' = r.player.pack
         /\ time' = r.player.time
         /\ wakeup' = r.player.wakeup
         /\ current' = r.player.current
         /\ outcome' = [NoOutcome EXCEPT !.call = "play", !.ok = r.ok,
                          !.again = (outcome.call = "play" /\ ~outcome.ok),
                          !.pre = self, !.output = r.output, !.pos = r.pos,
                          !.packer = r.packer]
  /\ UNCHANGED <<packer, lastOp, mode, t0>>

\* The caller keeps the packer an exhausted play call returned.
Resume ==
  /\ mode = "play"
  /\ outcome.call = "play" /\ ~outcome.ok
  /\ packer' = outcome.packer
  /\ lastOp' = NoOp
  /\ mode' = "handback"
  /\ UNCHANGED <<pack, time, wakeup, current, t0, outcome>>

\* The test driver starts calling deposit_current on the view with one bound.
StartDeposit(bound) ==
  /\ mode = "packed"
  /\ mode' = "deposit"
  /\ wakeup' = bound
  /\ time' = 0
  /\ current' = <<>>
  /\ outcome' = NoOutcome
  /\ UNCHANGED <<packer, lastOp, pack, t0>>

\* waves.deposit_current(deposit, t, bound), the live set of the last call
\* passed in, at a time not before the last call's.
Deposit(t) ==
  /\ mode = "deposit"
  /\ outcome.ok
  /\ t >= time
  /\ LET d == deposit_current(pack, current, t, wakeup)
     IN  /\ pack' = d.waves
         /\ time' = t
         /\ current' = IF d.ok THEN d.current ELSE <<>>
         /\ outcome' = [NoOutcome EXCEPT !.call = "deposit", !.ok = d.ok,
                          !.pre = [pack |-> pack, time |-> t, wakeup |-> wakeup,
                                   current |-> current],
                          !.next_pause = IF d.ok THEN d.next_pause ELSE 0,
                          !.packer = IF d.ok THEN TimedWavePacker_new ELSE d.packer]
  /\ UNCHANGED <<packer, lastOp, mode, wakeup, t0>>

Next ==
  \/ \E ws \in WaveLists(packer) : Extend(ws)
  \/ \E ws \in WaveLists(packer), drop \in Drops : BulkGenerate(ws, drop)
  \/ \E field \in {"freq_coef", "amp_coef"} : PushCoef(field)
  \/ GetPack
  \/ \E a \in PlayerArgs(packer) : NewPlayer(a[1], a[2])
  \/ \E w \in 0..(MaxTime + 1) : mode = "repacked" /\ NewPlayer(time, w)
  \/ \E n \in BufLens(packer) : Play(n)
  \/ Resume
  \/ \E b \in DepositBounds(packer) : StartDeposit(b)
  \/ \E t \in DepositTimes(packer) : Deposit(t)

Spec == Init /\ [][Next]_vars

\* ------------------------------------------------- reference notions
\* What the packed arrays hold, read off by position: wave i has the timing
\* and phase at index i and the coefficient groups delimited by the run lengths.
Offset(runs, i) == SumSeq(SubSeq(runs, 1, i - 1))
GroupAt(coef, runs, i) == SubSeq(coef, Offset(runs, i) + 1, Offset(runs, i) + runs[i])
WaveAt(p, i) ==
  TW(p.timings[i][1], p.timings[i][2],
     [freq  |-> GroupAt(p.freq_coef, p.freq_runs, i),
      amp   |-> GroupAt(p.amp_coef, p.amp_runs, i),
      phase |-> p.phases[i]])
Schedule(p) == [i \in 1..Len(p.timings) |-> WaveAt(p, i)]

\* The not-yet-scanned waves of a view.
ViewArrays(v) ==
  [timings |-> v.timings, phases |-> v.phases,
   freq_coef |-> v.frequencies.coeffs, freq_runs |-> v.frequencies.run_lengths,
   amp_coef |-> v.amplitudes.coeffs, amp_runs |-> v.amplitudes.run_lengths]
Pending(v) == Schedule(ViewArrays(v))

\* The packed form of a list of waves: every run length is the length of its group.
PackOf(ws) ==
  [timings   |-> [i \in 1..Len(ws) |-> <<ws[i].start, ws[i].end>>],
   freq_coef |-> Flatten([i \in 1..Len(ws) |-> ws[i].wave.freq]),
   freq_runs |-> [i \in 1..Len(ws) |-> Len(ws[i].wave.freq)],
   amp_coef  |-> Flatten([i \in 1..Len(ws) |-> ws[i].wave.amp]),
   amp_runs  |-> [i \in 1..Len(ws) |-> Len(ws[i].wave.amp)],
   phases    |-> [i \in 1..Len(ws) |-> ws[i].wave.phase]]

InWindow(tw, t) == tw.start <= t /\ t < tw.end
\* The sum of the contributions of the waves whose window holds t.
WindowMix(sched, t) ==
  sum_f32([i \in 1..Len(sched) |->
             IF InWindow(sched[i], t) THEN TimedWave_eval(sched[i], t) ELSE 0])

Count(q, x) == Cardinality({i \in 1..Len(q) : q[i] = x})
Range(q) == {q[i] : i \in 1..Len(q)}
SameWaves(a, b) ==
  /\ Len(a) = Len(b)
  /\ \A x \in Range(a) \cup Range(b) : Count(a, x) = Count(b, x)

SetMin(S) == CHOOSE x \in S : \A y \in S : x <= y

PlayDone == mode = "play" /\ outcome.call = "play"
DepositDone == mode = "deposit" /\ outcome.call = "deposit"
Self == [pack |-> pack, time |-> time, wakeup |-> wakeup, current |-> current]

\* ------------------------------------------------------------------ claims

\* C1 (sample-accurate mixing): every sample a play call writes for absolute
\* time t is the sum of the contributions of exactly the waves of the
\* Player's schedule with start <= t < end, each evaluated at t - start; for
\* the schedule of buffer_writing played from 0 with wakeup 11 into 7 samples
\* this is a quarter everywhere and two quarters at index 5.
C1_SampleAccurateMixing ==
  PlayDone =>
    /\ \A i \in 1..outcome.pos :
         outcome.output[i] = WindowMix(Schedule(packer), outcome.pre.time + i - 1)
    /\ (packer = from_iter(BufferWritingWaves) /\ outcome.pre.time = 0
          /\ wakeup = 11 /\ Len(outcome.output) = 7)
         => outcome.output = <<1, 1, 1, 1, 1, 2, 1>>

\* C2 (conservation under retire/birth): the live set a continue outcome of
\* deposit_current returns for current_time t holds exactly the waves of the
\* schedule with start <= t < end, and none with end <= t.
C2_LiveSetIsWindow ==
  (DepositDone /\ outcome.ok) =>
    /\ SameWaves(current, SelectSeq(Schedule(packer), LAMBDA tw : InWindow(tw, time)))
    /\ \A i \in 1..Len(current) : ~(current[i].end <= time)

\* The output a resumed Player writes from the exhaustion time T to W2, and
\* the output of one Player over the original schedule from its initial time.
ResumedRun(v, T, W2) == play(Player_new(v, T, W2), blank(W2 - T))
WholeRun(W2) == play(Player_new(get_pack(packer).val, t0, W2), blank(W2 - t0))

\* C3 (exhaustion round-trip): the packer P a play call hands back at its
\* first exhaustion, at time T, is accepted by get_pack, and a Player built
\* from it at T with a later wakeup bound writes, for every sample time from
\* T on, what one uninterrupted Player over the original schedule writes.
C3_ExhaustionRoundTrip ==
  (PlayDone /\ ~outcome.ok /\ ~outcome.again) =>
    /\ get_pack(outcome.packer).some
    /\ \A W2 \in (Max2(wakeup, time) + 1)..(MaxTime + 2) :
         LET r == ResumedRun(get_pack(outcome.packer).val, time, W2)
             u == WholeRun(W2)
         IN  \A i \in 1..(W2 - time) :
               (i <= r.pos /\ i + (time - t0) <= u.pos)
                 => r.output[i] = u.output[i + (time - t0)]

\* C4 (wakeup tightness): a continue outcome returns next_pause equal to the
\* minimum of the smallest end in the updated live set, the start of the
\* first still-pending wave and max_wakeup_time (an absent end or start
\* counting as max_wakeup_time), so next_pause <= max_wakeup_time; for the
\* schedule of the test depositing with bound 8 the calls at 0, 5, 6, 7
\* return 5, 6, 7, 8.
C4_WakeupTightness ==
  (DepositDone /\ outcome.ok) =>
    LET ends    == {current[i].end : i \in 1..Len(current)}
        death   == IF ends = {} THEN wakeup ELSE SetMin(ends)
        birth   == IF pack.timings = <<>> THEN wakeup ELSE pack.timings[1][1]
        fresh   == Len(outcome.pre.pack.timings) = Len(packer.timings) - Len(outcome.pre.current)
        from(k) == SameWaves(outcome.pre.current, SubSeq(DepositingWaves, k, k))
    IN  /\ outcome.next_pause = SetMin({death, birth, wakeup})
        /\ outcome.next_pause <= wakeup
        /\ (packer = from_iter(DepositingWaves) /\ wakeup = 8) =>
             /\ (time = 0) => outcome.next_pause = 5
             /\ (time = 5 /\ from(1) /\ Len(outcome.pre.pack.timings) = 3)
                  => outcome.next_pause = 6
             /\ (time = 6 /\ outcome.pre.current = SubSeq(DepositingWaves, 1, 2))
                  => outcome.next_pause = 7
             /\ (time = 7 /\ from(2) /\ Len(outcome.pre.pack.timings) = 2)
                  => outcome.next_pause = 8

\* A state of the deposit sequence of the test: the call at time 7 has
\* returned the live set [(5,8), (7,9)] and the wakeup 8.
C4_Witness ==
  /\ DepositDone /\ outcome.ok
  /\ packer = from_iter(DepositingWaves) /\ wakeup = 8 /\ time = 7
  /\ current = SubSeq(DepositingWaves, 2, 3)
  /\ outcome.next_pause = 8

\* C5 (exhaustion hand-back content): deposit_current returns the exhausted
\* outcome exactly when current_time >= max_wakeup_time, and the packer it
\* carries holds exactly the live waves with end > current_time, in live-set
\* order, followed by every not-yet-scanned wave, in packed order, each with
\* its own timing, coefficients and phase; for the test depositing the call
\* at 8 returns the packer built from (7,9), (8,12).
C5_HandBackContent ==
  DepositDone =>
    /\ outcome.ok <=> (time < wakeup)
    /\ ~outcome.ok =>
         LET kept == SelectSeq(outcome.pre.current, LAMBDA tw : tw.end > time)
         IN  /\ outcome.packer = PackOf(kept \o Pending(outcome.pre.pack))
             /\ (packer = from_iter(DepositingWaves)
                   /\ outcome.pre.current = SubSeq(DepositingWaves, 2, 3)
                   /\ Len(outcome.pre.pack.timings) = 1)
                  => outcome.packer = from_iter(SubSeq(DepositingWaves, 3, 4))

\* C6 (buffer accounting of play): a play call on N samples advances
\* current_time by the number k of samples it writes; the written samples
\* are the first k elements of the buffer, element i being a mix for time
\* entry + i - 1; on success k = N; on exhaustion the returned slice is the
\* last N - k elements and none of them was modified.
C6_BufferAccounting ==
  PlayDone =>
    LET N == Len(outcome.output)
        k == Cardinality({i \in 1..N : outcome.output[i] # Stale})
        sched == Schedule(packer)
    IN  /\ current_time(Self) - outcome.pre.time = k
        /\ \A i \in 1..N : (outcome.output[i] # Stale) <=> (i <= k)
        /\ \A i \in 1..k :
             \E L \in SUBSET (1..Len(sched)) :
               outcome.output[i] =
                 sum_f32([j \in 1..Len(sched) |->
                            IF j \in L
                            THEN TimedWave_eval(sched[j], outcome.pre.time + i - 1)
                            ELSE 0])
        /\ outcome.ok => k = N
        /\ ~outcome.ok =>
             /\ outcome.pos = k
             /\ SubSeq(outcome.output, outcome.pos + 1, N) = blank(N - k)

\* A play call that wrote some but not all of its buffer before exhaustion.
C6_Witness ==
  /\ PlayDone /\ ~outcome.ok
  /\ 0 < outcome.pos /\ outcome.pos < Len(outcome.output)
  /\ time = outcome.pre.time + outcome.pos

\* C7 (buffer-split invariance): two successful play calls on buffers of N
\* and M samples write the same N + M values, and leave the same
\* current_time and live set, as one successful play call on N + M samples.
C7_BufferSplitInvariance ==
  mode = "play" =>
    \A N, M \in 1..MaxBuf :
      LET a == play(Self, blank(N))
          b == play(a.player, blank(M))
          c == play(Self, blank(N + M))
      IN  (a.ok /\ b.ok /\ c.ok) =>
            /\ a.output \o b.output = c.output
            /\ current_time(b.player) = current_time(c.player)
            /\ b.player.current = c.player.current

\* C8 (run lengths recorded by extend): after extend, each appended wave has
\* a frequency run length equal to its number of frequency coefficients and
\* an amplitude run length equal to its number of amplitude coefficients, so
\* the parallel-array invariants are kept and get_pack succeeds whenever the
\* timings are non-decreasing by start.
C8_ExtendRunLengths ==
  (mode = "author" /\ lastOp.op = "extend") =>
    LET n0 == Len(lastOp.before.timings)
        ws == lastOp.ws
    IN  /\ \A i \in 1..Len(ws) :
             /\ packer.freq_runs[Len(lastOp.before.freq_runs) + i] = Len(ws[i].wave.freq)
             /\ packer.amp_runs[Len(lastOp.before.amp_runs) + i] = Len(ws[i].wave.amp)
        /\ (LengthsAgree(lastOp.before) /\ RunsAgree(lastOp.before))
             => /\ LengthsAgree(packer) /\ RunsAgree(packer)
                /\ SortedByStart(packer.timings) => get_pack(packer).some

\* C9 (view construction): get_pack / PackedTimedWaves::new produces an
\* instance exactly when the four per-wave arrays have one length, each run
\* length array sums to the length of its coefficient array and the timings
\* are non-decreasing by start; the instance views the whole arrays.
C9_ViewConstruction ==
  lastOp.op = "get_pack" =>
    /\ lastOp.result.some <=> WellFormed(lastOp.before)
    /\ lastOp.result.some => ViewArrays(lastOp.result.val) = lastOp.before

\* get_pack has refused a packer whose arrays agree in length and run sums
\* and whose timings are out of order.
C9_Witness ==
  /\ lastOp.op = "get_pack" /\ ~lastOp.result.some
  /\ LengthsAgree(packer) /\ RunsAgree(packer)
  /\ Len(packer.timings) >= 2 /\ ~SortedByStart(packer.timings)

\* C10 (bulk_generate has the effect of extend): applying bulk_generate to a
\* packer with the timings, coefficient groups and phases of a list of waves
\* leaves the six arrays equal to those extend leaves on the same packer.
C10_BulkEqualsExtend ==
  /\ (mode = "author" /\ lastOp.op = "extend") =>
       packer = bulk_generate(lastOp.before, lastOp.args.timings,
                              lastOp.args.frequencies, lastOp.args.amplitudes,
                              lastOp.args.phases)
  /\ (mode = "author" /\ lastOp.op = "bulk_generate"
        /\ lastOp.args = Columns(lastOp.ws, "none")) =>
       packer = extend(lastOp.before, lastOp.ws)

\* ------------------------------------------- the run-length byte (C11)
\* The largest count a u8 run length holds.
U8Max == 255

\* Waves with f frequency and a amplitude coefficients, all of them 1, on
\* both sides of the largest count a run length holds.
Ones(n) == [i \in 1..n |-> 1]
LongWave(f, a) == TW(0, 1, [freq |-> Ones(f), amp |-> Ones(a), phase |-> 0])
CapLens == {0, 1, U8Max, U8Max + 1, U8Max + 2}
LongCatalogue == {LongWave(f, a) : f \in CapLens, a \in CapLens}
LongLists(p) == SeqsUpTo(LongCatalogue, MaxWaves - Size(p)) \ {<<>>}

\* Authoring with long waves: extend, bulk_generate and get_pack only.
NextCap ==
  \/ \E ws \in LongLists(packer) : Extend(ws)
  \/ \E ws \in LongLists(packer) : BulkGenerate(ws, "none")
  \/ GetPack

SpecCap == Init /\ [][NextCap]_vars

HasLongWave(ws) ==
  \E i \in 1..Len(ws) :
    Len(ws[i].wave.freq) > U8Max \/ Len(ws[i].wave.amp) > U8Max

\* C11 (255-coefficient cap): when a wave appended by extend or
\* bulk_generate has more than 255 frequency coefficients or more than 255
\* amplitude coefficients, get_pack on the resulting packer produces no
\* instance.
C11_CoefficientCap ==
  (mode = "author" /\ lastOp.op \in {"extend", "bulk_generate"}
     /\ HasLongWave(lastOp.ws))
    => ~get_pack(packer).some

\* The number of leading waves of q that start at or before t.
RECURSIVE LeadCount(_, _)
LeadCount(q, t) ==
  IF q = <<>> \/ Head(q).start > t THEN 0 ELSE 1 + LeadCount(Tail(q), t)

\* The until_time values a scan of view v is examined with.
ScanTimes(v) ==
  (0..(MaxTime + 1))
    \cup {v.timings[i][1] : i \in 1..Len(v.timings)}
    \cup {v.timings[i][1] - 1 : i \in 1..Len(v.timings)}

\* The view belongs to the schedule held in packer.
ViewOfPacker == mode \in {"packed", "repacked", "play", "deposit"}

\* C12 (sample is a one-directional scan): on every view the program
\* reaches, sample(until_time) yields, in packed order, exactly the longest
\* prefix of the pending waves with start <= until_time and leaves the rest
\* pending; a deposit_current call adds to the live set exactly that prefix;
\* and the pending waves are always a suffix of the schedule, so no wave is
\* yielded twice.
C12_SampleScan ==
  /\ \A t \in ScanTimes(pack) :
       LET P == Pending(pack)
           n == LeadCount(P, t)
           s == sample(pack, t)
       IN  /\ s.items = SubSeq(P, 1, n)
           /\ Pending(s.waves) = SubSeq(P, n + 1, Len(P))
  /\ (DepositDone /\ outcome.ok) =>
       LET P    == Pending(outcome.pre.pack)
           kept == SelectSeq(outcome.pre.current, LAMBDA tw : tw.end > time)
       IN  /\ current = kept \o SubSeq(P, 1, LeadCount(P, time))
           /\ Pending(pack) = SubSeq(P, LeadCount(P, time) + 1, Len(P))
  /\ ViewOfPacker =>
       LET S == Schedule(packer)
       IN  Pending(pack) = SubSeq(S, Len(S) - Len(pack.timings) + 1, Len(S))

\* A deposit_current call has pulled a wave and stopped at a pending wave
\* that starts later.
C12_Witness ==
  /\ DepositDone /\ outcome.ok
  /\ Len(pack.timings) < Len(outcome.pre.pack.timings)
  /\ pack.timings # <<>>
  /\ pack.timings[1][1] > time

\* The remaining arrays of view v advance together.
Lockstep(v) ==
  /\ Len(v.timings) = Len(v.phases)
  /\ Len(v.timings) = Len(v.frequencies.run_lengths)
  /\ Len(v.timings) = Len(v.amplitudes.run_lengths)
  /\ Len(v.frequencies.coeffs) = SumSeq(v.frequencies.run_lengths)
  /\ Len(v.amplitudes.coeffs) = SumSeq(v.amplitudes.run_lengths)

\* live[j] is the wave at index f[j] of sched, for increasing indices f[j]
\* among the first k.
CarriedFrom(live, sched, k) ==
  \E f \in [1..Len(live) -> 1..k] :
    /\ \A i, j \in 1..Len(live) : i < j => f[i] < f[j]
    /\ \A j \in 1..Len(live) : live[j] = sched[f[j]]

\* C13 (cursor lockstep): in every state of a view the remaining timings,
\* phases, frequency run lengths and amplitude run lengths are equally many,
\* the remaining coefficients of each kind are as many as the sum of the
\* remaining run lengths, the same holds after any further sample call, and
\* every wave in the live set is the timing, frequency group, amplitude group
\* and phase found at one index of the packed arrays, among the indices
\* already scanned.
C13_CursorLockstep ==
  /\ Lockstep(pack)
  /\ \A t \in ScanTimes(pack) : Lockstep(sample(pack, t).waves)
  /\ ViewOfPacker =>
       CarriedFrom(current, Schedule(packer),
                   Len(packer.timings) - Len(pack.timings))

\* A deposit_current call returns two live waves of a schedule of four, one
\* retired and one still pending.
C13_Witness ==
  /\ DepositDone /\ outcome.ok
  /\ Len(packer.timings) = 4
  /\ Len(current) = 2
  /\ Len(pack.timings) = 1

\* The outcome of the deposit_current call the loop of play makes next on the
\* Player as it stands.  Every iteration of the loop starts from a state in
\* which a play call on a shorter buffer returns, so these are the outcomes
\* of all the calls play makes.
NextDeposit == deposit_current(pack, current, time, wakeup)

\* C14 (strictly positive run length): whenever deposit_current returns
\* continue inside play, next_pause > time.
C14_PositiveRun ==
  (mode = "play" /\ NextDeposit.ok) => NextDeposit.next_pause > time

\* Every wave of the Player's schedule has a non-empty window that ends after
\* the Player's initial time, and the initial time is not past the bound.
ProperSchedule ==
  /\ \A i \in 1..Len(packer.timings) :
       /\ packer.timings[i][1] < packer.timings[i][2]
       /\ packer.timings[i][2] > t0
  /\ t0 <= wakeup

\* C15 (horizon invariant): for a Player over such a schedule, after any
\* sequence of play calls current_time() is at most the wakeup bound, no
\* sample was written for a time at or past the bound, and a play call on
\* N >= 1 samples entered at time t succeeds exactly when t + N <= wakeup.
C15_Horizon ==
  (mode = "play" /\ ProperSchedule) =>
    /\ current_time(Self) <= wakeup
    /\ PlayDone =>
         LET N == Len(outcome.output)
         IN  /\ \A i \in 1..N :
                  outcome.output[i] # Stale => outcome.pre.time + i - 1 < wakeup
             /\ N >= 1 => (outcome.ok <=> outcome.pre.time + N <= wakeup)

\* A successful play call has filled its buffer up to the bound exactly, with
\* a wave still live there.
C15_Witness ==
  /\ PlayDone /\ ProperSchedule /\ outcome.ok
  /\ Len(outcome.output) >= 1
  /\ time = wakeup
  /\ current # <<>>

\* C17 (exhaustion consumes the view): once a play call has returned the
\* exhausted outcome the Player's view and live set are empty, and every
\* later play call on that Player returns the exhausted outcome again with
\* an empty packer, writes nothing into its buffer and leaves current_time()
\* unchanged.
C17_ExhaustionConsumes ==
  /\ (PlayDone /\ ~outcome.ok) =>
       /\ pack = PackedTimedWaves_default
       /\ Pending(pack) = <<>>
       /\ current = <<>>
  /\ (PlayDone /\ outcome.again) =>
       /\ ~outcome.ok
       /\ outcome.packer = TimedWavePacker_new
       /\ outcome.pos = 0
       /\ outcome.output = blank(Len(outcome.output))
       /\ current_time(Self) = current_time(outcome.pre)

\* A second play call after an exhaustion that handed back a non-empty
\* schedule, on a non-empty buffer.
C17_Witness ==
  /\ PlayDone /\ outcome.again
  /\ Len(outcome.output) >= 1
  /\ \E i \in 1..Len(packer.timings) : packer.timings[i][2] > time

\* The decoder after k calls of next, and the item the k-th call yields.
RECURSIVE AfterCalls(_, _)
AfterCalls(mp, k) ==
  IF k = 0 THEN mp ELSE MultiPoly_next(AfterCalls(mp, k - 1)).mp
Yield(mp, k) == MultiPoly_next(AfterCalls(mp, k - 1))

\* The decoding of coefficients coef under run lengths runs is as described.
Decodes(coef, runs) ==
  LET mp == MultiPoly_new(coef, runs).val
      n  == Len(runs)
  IN  /\ \A k \in 1..n :
           /\ Yield(mp, k).some
           /\ Yield(mp, k).val = SubSeq(coef, Offset(runs, k) + 1, Offset(runs, k) + runs[k])
           /\ AfterCalls(mp, k).coeffs = SubSeq(coef, Offset(runs, k + 1) + 1, Len(coef))
           /\ AfterCalls(mp, k).run_lengths = SubSeq(runs, k + 1, n)
      /\ ~Yield(mp, n + 1).some
      /\ AfterCalls(mp, n + 1) = AfterCalls(mp, n)
      /\ Flatten([k \in 1..n |-> Yield(mp, k).val]) = coef

\* C18 (MultiPoly decoding): for coefficients and run lengths with
\* sum(run_lengths) = len(coefficients), the k-th call of next yields the
\* sub-range that starts at the sum of the first k-1 run lengths and has the
\* length of the k-th; there are exactly len(run_lengths) items and then
\* None; their concatenation is the coefficient array; each call leaves the
\* coefficients and run lengths after the yielded group as the remaining
\* view.
C18_MultiPolyDecoding ==
  /\ MultiPoly_new(packer.freq_coef, packer.freq_runs).some
       => Decodes(packer.freq_coef, packer.freq_runs)
  /\ MultiPoly_new(packer.amp_coef, packer.amp_runs).some
       => Decodes(packer.amp_coef, packer.amp_runs)

\* A packer whose amplitude groups have different lengths and decode.
C18_Witness ==
  /\ MultiPoly_new(packer.amp_coef, packer.amp_runs).some
  /\ Len(packer.amp_runs) = 2
  /\ packer.amp_runs[1] # packer.amp_runs[2]
  /\ packer.amp_coef = <<2, 1, 4>>

\* ------------------------------------- play, one loop iteration at a time
\* Entry of player.play(&mut buffer) on n samples (lib.rs 31-32): the live
\* set is taken out of the Player into the local `current`.
PlayEnter(n) ==
  /\ mode = "play"
  /\ mode' = "loop"
  /\ outcome' = [NoOutcome EXCEPT !.call = "loop",
                   !.again = (outcome.call = "play" /\ ~outcome.ok),
                   !.pre = Self, !.output = blank(n)]
  /\ UNCHANGED <<packer, lastOp, pack, time, wakeup, current, t0>>

\* The exhausted arm of the match (lib.rs 52): play returns Err.
IterErr(d) ==
  /\ mode' = "play"
  /\ pack' = d.waves
  /\ current' = <<>>
  /\ outcome' = [outcome EXCEPT !.call = "play", !.ok = FALSE,
                   !.packer = d.packer, !.iters = @ + 1, !.zero = TRUE]
  /\ UNCHANGED time

\* The continue arm (lib.rs 35-51) with cut computed: the chunk is written
\* and the time advanced; the call returns when the buffer is used up.
IterOk(d, cut) ==
  /\ pack' = d.waves
  /\ current' = d.current
  /\ time' = time + cut
  /\ mode' = IF Len(outcome.output) - (outcome.pos + cut) = 0 THEN "play" ELSE "loop"
  /\ outcome' = [outcome EXCEPT
                   !.call = IF Len(outcome.output) - (outcome.pos + cut) = 0
                            THEN "play" ELSE "loop",
                   !.output = write(@, outcome.pos, cut, d.current, time),
                   !.pos = @ + cut, !.iters = @ + 1, !.zero = (cut = 0)]

\* One iteration of the loop of Player::play on the outcome d of its
\* deposit_current call.
IterMatch(d) ==
  IF ~d.ok THEN IterErr(d)
  ELSE IterOk(d, cut_len(Len(outcome.output) - outcome.pos, d.next_pause - time))

PlayIter ==
  /\ mode = "loop"
  /\ IterMatch(deposit_current(pack, current, time, wakeup))
  /\ UNCHANGED <<packer, lastOp, wakeup, t0>>

NextLoop ==
  \/ \E ws \in WaveLists(packer) : Extend(ws)
  \/ \E ws \in WaveLists(packer) : BulkGenerate(ws, "none")
  \/ GetPack
  \/ \E a \in PlayerArgs(packer) : NewPlayer(a[1], a[2])
  \/ \E n \in BufLens(packer) : PlayEnter(n)
  \/ PlayIter

\* play runs to its return once called: the loop is not suspended.  This is
\* the weak fairness of PlayIter, with ENABLED <<PlayIter>>_vars written out:
\* the match of PlayIter is total and every iteration raises outcome.iters,
\* so the action is enabled, and changes the state, exactly in mode "loop".
LoopFair == []<>(mode # "loop") \/ []<><<PlayIter>>_vars

SpecLoop == Init /\ [][NextLoop]_vars /\ LoopFair

\* The iterated loop returns what play returns.
LoopIsPlay ==
  (mode = "play" /\ outcome.call = "play") =>
    LET r == play(outcome.pre, blank(Len(outcome.output)))
    IN  /\ r.ok = outcome.ok
        /\ r.output = outcome.output
        /\ r.pos = outcome.pos
        /\ r.packer = outcome.packer
        /\ r.player = Self

\* C16 (termination of play): for every accepted schedule, initial time,
\* wakeup bound and buffer, the loop of play returns; on a buffer of N
\* samples it makes at most 2N + 1 deposit_current calls; and an iteration
\* that writes no sample is never followed by another such iteration.
C16_PlayTerminates ==
  /\ [](outcome.iters <= 2 * Len(outcome.output) + 1)
  /\ [][(mode = "loop" /\ outcome.zero) => ~outcome'.zero]_vars
  /\ (mode = "loop") ~> (mode = "play")

\* An iteration has written no sample and the loop goes on.
C16_Witness ==
  /\ mode = "loop"
  /\ outcome.zero
  /\ outcome.pos < Len(outcome.output)

====
